---- MODULE Spec2Model ----
(***************************************************************************)
(* Model of the CV batch generator:                                        *)
(*   cv_template/batch_generate_cv.py   (validation, photo resolution,     *)
(*                                       merge of the extra file, main)    *)
(*   cv_template/data/merge_all_profiles.py   (merge_files)                *)
(*   cv_template/generate_cv.py         (construir_cv, as far as it can    *)
(*                                       raise)                            *)
(*                                                                         *)
(* Three specifications share the module:                                  *)
(*   Spec          one run of batch_generate_cv.main()                     *)
(*   SpecValidate  validate_profile applied to one collection element      *)
(*   SpecMerge     the merge routines applied to a target and an extra     *)
(*                 file, repeatedly                                        *)
(*   SpecNormalize the three collection normalisers applied to one JSON    *)
(*                 value                                                   *)
(*   SpecCompress  the quality search of preprocess_photo                  *)
(***************************************************************************)
EXTENDS Integers, Sequences, FiniteSets, TLC

VARIABLES
    \* ---- Spec: one run of main()
    pc,         \* position in main(): "start","load","inmem","pillow","loop","done","exit"
    args,       \* parsed command line
    files,      \* the two JSON files on disk: [profiles |-> Doc, extra |-> Doc]
    files0,     \* content of the files when the run started
    fs,         \* the photo files that exist on disk
    pillow,     \* whether PIL can be imported
    perfiles,   \* the list main() iterates
    idx,        \* number of profiles the loop has gone through
    count,      \* main()'s counter
    events,     \* one record per build_one call, in call order
    out,        \* what main() printed/returned: [summary, exitcode]
    \* ---- SpecValidate
    vIn, vOut, vpc,
    \* ---- SpecMerge
    mTarget,    \* the target file
    mExtra,     \* the extra / input file
    mTarget0,   \* the target file before the first merge
    mDisk,      \* record of the last on-disk merge entry (main lines 466-472)
    mMem,       \* record of the last in-memory merge entry (main lines 480-509)
    mFiles,     \* record of the last merge_files call
    mN,         \* merges done
    \* ---- SpecNormalize
    nDoc,       \* the JSON value json.load returned
    nBatch,     \* result of normalize_profiles (batch_generate_cv.py)
    nMerge,     \* result of _normalize_perfiles (batch_generate_cv.py)
    nAll,       \* result of _normalize_perfiles (merge_all_profiles.py)
    \* ---- SpecCompress
    cFits,      \* the qualities whose encoded size is <= max_bytes
    low, high,  \* the interval of the search
    best_quality,
    cTried,     \* the qualities the loop saved the file at
    cWritten,   \* the quality of the file now at out_path, 0 when none
    cpc         \* "search" or "done"

batchVars == <<pc, args, files, files0, fs, pillow, perfiles, idx, count, events, out>>
valVars   == <<vIn, vOut, vpc>>
mergeVars == <<mTarget, mExtra, mTarget0, mDisk, mMem, mFiles, mN>>
normVars  == <<nDoc, nBatch, nMerge, nAll>>
compVars  == <<cFits, low, high, best_quality, cTried, cWritten, cpc>>
vars      == <<batchVars, valVars, mergeVars, normVars, compVars>>

(***************************************************************************)
(* Bounds of the model.                                                    *)
(***************************************************************************)
\* longest profile list in profiles.json (Spec)
MaxLen == 2
\* longest profile list in a file of SpecMerge
MaxMergeLen == 2
\* merges in a row in SpecMerge
MaxMerges == 2
\* fields of the base profile changed at once in SpecValidate
MaxPerturbed == 2

(***************************************************************************)
(* JSON values.  A string is a sequence of one-character strings, so that  *)
(* strip() and lower() are computed.  Lists and objects nested in a        *)
(* profile are kept as a sequence of tokens: only their emptiness matters  *)
(* to the code modelled here.                                              *)
(***************************************************************************)
JNull    == [t |-> "null", s |-> <<>>]
JStr(s)  == [t |-> "str",  s |-> s]
JList(s) == [t |-> "list", s |-> s]
JDict(s) == [t |-> "dict", s |-> s]
JNum(s)  == [t |-> "num",  s |-> s]
JTrue    == [t |-> "bool", s |-> <<"1">>]
JFalse   == [t |-> "bool", s |-> <<>>]

\* Python truthiness: bool(v)
Truthy(v) ==
    CASE v.t = "null" -> FALSE
      [] v.t = "num"  -> v.s # <<"0">>
      [] OTHER        -> v.s # <<>>

(***************************************************************************)
(* An element of a profile collection.  json.load can yield any JSON       *)
(* value as an element:                                                    *)
(*   kind "dict"       an object; f maps its keys to values                *)
(*   kind "container"  a list or a string; items are the things `in` finds *)
(*   kind "scalar"     a number, true, false or null                       *)
(***************************************************************************)
Dict(f)          == [kind |-> "dict", f |-> f, items |-> <<>>]
Container(items) == [kind |-> "container", f |-> <<>>, items |-> items]
Scalar           == [kind |-> "scalar", f |-> <<>>, items |-> <<>>]

Range(s) == {s[i] : i \in 1..Len(s)}

\* dict.get(k, default)
Get(f, k, default) == IF k \in DOMAIN f THEN f[k] ELSE default

(***************************************************************************)
(* validate_profile                                                        *)
(***************************************************************************)
REQUIRED_KEYS ==
    <<"nombre", "cargo", "contacto", "resumen", "experiencias", "educacion",
      "habilidades", "idiomas">>

\* a validator that takes every empty value, the empty object too, as missing
InNoneEmptyStrEmptyList_AnyEmpty(v) ==
    \/ v.t = "null"
    \/ v.t \in {"str", "list", "dict"} /\ v.s = <<>>

\* p[k] in (None, '', [])
InNoneEmptyStrEmptyList(v) ==
    \/ v.t = "null"
    \/ v.t = "str"  /\ v.s = <<>>
    \/ v.t = "list" /\ v.s = <<>>

\* `k not in p or p[k] in (None, '', [])` for a dict p
KeyMissing(f, k) == k \notin DOMAIN f \/ InNoneEmptyStrEmptyList(f[k])

\* The comprehension raises TypeError when `k not in p` cannot be evaluated
\* (p is a number, a boolean or null) or when p is a list or a string that
\* holds k, so that p[k] is evaluated with a string index.
ValidateRaises(p) ==
    \/ p.kind = "scalar"
    \/ p.kind = "container" /\ \E i \in 1..Len(REQUIRED_KEYS) : REQUIRED_KEYS[i] \in Range(p.items)

validate_profile(p) ==
    IF ValidateRaises(p)
    THEN [raised |-> TRUE, ok |-> FALSE, missing |-> <<>>]
    ELSE LET IsMissing(k) == IF p.kind = "dict" THEN KeyMissing(p.f, k) ELSE TRUE
             missing == SelectSeq(REQUIRED_KEYS, IsMissing)
         IN  [raised |-> FALSE, ok |-> Len(missing) = 0, missing |-> missing]

(***************************************************************************)
(* SpecValidate: validate_profile on one element.  The inputs are the      *)
(* base profile with up to MaxPerturbed of its fields removed or replaced, *)
(* and elements that are not objects.                                      *)
(***************************************************************************)
BaseProfile ==
    [nombre       |-> JStr(<<"A">>),
     cargo        |-> JStr(<<"b">>),
     contacto     |-> JList(<<"m">>),
     resumen      |-> JStr(<<"x">>),
     experiencias |-> JList(<<"e">>),
     educacion    |-> JList(<<"d">>),
     habilidades  |-> JList(<<"h">>),
     idiomas      |-> JDict(<<"i">>),
     ubicacion    |-> JStr(<<"u">>)]

FieldValues ==
    {JNull, JStr(<<>>), JStr(<<"x">>), JList(<<>>), JDict(<<>>), JNum(<<"0">>), JFalse}

Without(f, k) == [x \in (DOMAIN f) \ {k} |-> f[x]]
With(f, k, v) == [x \in (DOMAIN f) \cup {k} |-> IF x = k THEN v ELSE f[x]]

RECURSIVE Perturbed(_)
Perturbed(n) ==
    IF n = 0 THEN {BaseProfile}
    ELSE LET prev == Perturbed(n - 1)
         IN  prev
             \cup {Without(f, k) : f \in prev, k \in DOMAIN BaseProfile}
             \cup {With(f, k, v) : f \in prev, k \in DOMAIN BaseProfile, v \in FieldValues}

ValidateInputs ==
    {Dict(f) : f \in Perturbed(MaxPerturbed)}
    \cup {Scalar, Container(<<>>), Container(<<"z">>), Container(<<"resumen">>)}

NoResult == [raised |-> FALSE, ok |-> FALSE, missing |-> <<>>]

(***************************************************************************)
(* Strings: str(), strip(), lower()                                        *)
(***************************************************************************)
\* str(v) of a JSON value: a string is itself, None prints as "None", a
\* number as its digits, a list or an object as its bracketed repr.
PyStr(v) ==
    CASE v.t = "str"  -> v.s
      [] v.t = "null" -> <<"N", "o", "n", "e">>
      [] v.t = "num"  -> v.s
      [] v.t = "bool" -> IF v.s = <<>> THEN <<"F">> ELSE <<"T">>
      [] v.t = "list" -> <<"[">> \o v.s \o <<"]">>
      [] OTHER        -> <<"{">> \o v.s \o <<"}">>

IsSpace(c) == c = " "

RECURSIVE LStrip(_)
LStrip(s) == IF s # <<>> /\ IsSpace(Head(s)) THEN LStrip(Tail(s)) ELSE s

RECURSIVE RStrip(_)
RStrip(s) ==
    IF s # <<>> /\ IsSpace(s[Len(s)]) THEN RStrip(SubSeq(s, 1, Len(s) - 1)) ELSE s

Strip(s) == RStrip(LStrip(s))

LowerChar(c) ==
    CASE c = "A" -> "a"
      [] c = "B" -> "b"
      [] OTHER   -> c

Lower(s) == [i \in 1..Len(s) |-> LowerChar(s[i])]

(***************************************************************************)
(* The identity key of a merge (both files define the same function)       *)
(***************************************************************************)
\* every key a profile of the model can hold, in the order sort_keys gives
KeyOrder ==
    <<"cargo", "contacto", "educacion", "experiencias", "habilidades", "idiomas",
      "incluir_foto", "nombre", "resumen", "ruta_foto", "ubicacion">>

\* json.dumps(p, ensure_ascii=False, sort_keys=True): the key/value pairs in
\* key order.  Data that json.load produced always serialises, so the
\* `except` fallback (nombre + '|' + cargo) is never taken.
json_dumps_sorted(f) ==
    LET Has(k) == k \in DOMAIN f
        ks     == SelectSeq(KeyOrder, Has)
    IN  [i \in 1..Len(ks) |-> <<ks[i], f[ks[i]]>>]

\* p.get(...) raises AttributeError on anything that is not a dict
KeyRaises(p) == p.kind # "dict"

\* a key of name and title alone
_profile_key_for_merge_NameTitle(p) ==
    <<Lower(Strip(PyStr(Get(p.f, "nombre", JStr(<<>>))))),
      Lower(Strip(PyStr(Get(p.f, "cargo", JStr(<<>>))))), <<>>>>

_profile_key_for_merge(p) ==
    LET nombre == Lower(Strip(PyStr(Get(p.f, "nombre", JStr(<<>>)))))
        cargo  == Lower(Strip(PyStr(Get(p.f, "cargo", JStr(<<>>)))))
        fingerprint == json_dumps_sorted(p.f)
    IN  <<nombre, cargo, fingerprint>>

_profile_key(p) ==
    LET nombre == Lower(Strip(PyStr(Get(p.f, "nombre", JStr(<<>>)))))
        cargo  == Lower(Strip(PyStr(Get(p.f, "cargo", JStr(<<>>)))))
        fingerprint == json_dumps_sorted(p.f)
    IN  <<nombre, cargo, fingerprint>>

(***************************************************************************)
(* JSON documents on disk.                                                 *)
(*   shape "missing"    the file does not exist                            *)
(*   shape "malformed"  json.load raises                                   *)
(*   shape "obj"        {"perfiles": [items]}                              *)
(*   shape "list"       [items]                                            *)
(*   shape "single"     an object without a "perfiles" list; items holds   *)
(*                      that one object                                    *)
(*   shape "other"      any other JSON value (a number, a string, null)    *)
(***************************************************************************)
Doc(shape, items) == [shape |-> shape, items |-> items]
Missing   == Doc("missing", <<>>)
Malformed == Doc("malformed", <<>>)
OtherJson == Doc("other", <<>>)

\* The JSON files of a run, by the name the model gives them:
\*   "profiles"  DEFAULT_PROFILES_FILE, data/profiles.json
\*   "extra"     DEFAULT_EXTRA_FILE, data/perfiles_generados_extra.json
\*   "alt"       any other file named on the command line
DEFAULT_PROFILES_FILE == "profiles"
DEFAULT_EXTRA_FILE    == "extra"
AltFile               == "alt"

Exists(doc) == doc.shape # "missing"

\* load_json / json.load(open(path)): raises when the file is missing or is
\* not JSON
LoadRaises(doc) == doc.shape \in {"missing", "malformed"}

\* a normaliser that takes a single object too
NormalizeRaises_AcceptsSingle(doc) == doc.shape \notin {"obj", "list", "single"}

\* normalize_profiles (batch_generate_cv.py)
NormalizeRaises(doc) == doc.shape \notin {"obj", "list"}
normalize_profiles(doc) == doc.items

\* _normalize_perfiles (batch_generate_cv.py)
PerfilesRaises(doc) == doc.shape \notin {"obj", "list"}
_normalize_perfiles(doc) == doc.items

IsDict(p) == p.kind = "dict"

\* _normalize_perfiles (merge_all_profiles.py): never raises
merge_all_normalize_perfiles(doc) ==
    CASE doc.shape \in {"obj", "list"} -> SelectSeq(doc.items, IsDict)
      [] doc.shape = "single" ->
            IF "nombre" \in DOMAIN doc.items[1].f \/ "cargo" \in DOMAIN doc.items[1].f
            THEN doc.items ELSE <<>>
      [] OTHER -> <<>>

(***************************************************************************)
(* The deduplicating loop                                                  *)
(*     seen = set(); result = []                                           *)
(*     for p in combined: k = key(p); if k in seen: continue; ...          *)
(***************************************************************************)
\* a loop that never adds the key to seen
dedup_for_merge_NoSeen(combined, i, seen, result) == combined

RECURSIVE dedup_for_merge(_, _, _, _)
dedup_for_merge(combined, i, seen, result) ==
    IF i > Len(combined) THEN result
    ELSE LET k == _profile_key_for_merge(combined[i])
         IN  IF k \in seen
             THEN dedup_for_merge(combined, i + 1, seen, result)
             ELSE dedup_for_merge(combined, i + 1, seen \cup {k}, Append(result, combined[i]))

RECURSIVE dedup_merge_all(_, _, _, _)
dedup_merge_all(combined, i, seen, result) ==
    IF i > Len(combined) THEN result
    ELSE LET k == _profile_key(combined[i])
         IN  IF k \in seen
             THEN dedup_merge_all(combined, i + 1, seen, result)
             ELSE dedup_merge_all(combined, i + 1, seen \cup {k}, Append(result, combined[i]))

\* the loop raises at the first element that is not a dict
AnyKeyRaises(combined) == \E i \in 1..Len(combined) : KeyRaises(combined[i])

\* the extra profiles put first
Combined_ExtraFirst(target, extra) == extra \o target

\* combined = list(target) + list(extra)
Combined(target, extra) == target \o extra

(***************************************************************************)
(* merge_extra_into_profiles(extra_path, target_path)                      *)
(* status "noop": the extra file does not exist, 0 is returned             *)
(* status "raised": an exception leaves the function, nothing was written  *)
(* status "ok": the target was rewritten as {"perfiles": result}           *)
(* ops: the files it opened, in order                                      *)
(***************************************************************************)
\* the file operations of the function, in order
ReadExtra   == "read extra"
ReadTarget  == "read target"
WriteTarget == "write target"

\* a merge that opens the target for writing before the loop over the keys:
\* an element that is no object leaves the target truncated
merge_extra_into_profiles_WriteFirst(extra, target) ==
    IF ~Exists(extra)
    THEN [status |-> "noop", ret |-> 0, target |-> target, seq |-> <<>>, ops |-> <<>>]
    ELSE IF LoadRaises(extra)
    THEN [status |-> "raised", ret |-> 0, target |-> target, seq |-> <<>>,
          ops |-> <<ReadExtra>>]
    ELSE IF LoadRaises(target) \/ PerfilesRaises(extra) \/ PerfilesRaises(target)
    THEN [status |-> "raised", ret |-> 0, target |-> target, seq |-> <<>>,
          ops |-> <<ReadExtra, ReadTarget>>]
    ELSE IF AnyKeyRaises(Combined(_normalize_perfiles(target), _normalize_perfiles(extra)))
    THEN [status |-> "raised", ret |-> 0, target |-> Malformed, seq |-> <<>>,
          ops |-> <<ReadExtra, ReadTarget, WriteTarget>>]
    ELSE LET combined == Combined(_normalize_perfiles(target), _normalize_perfiles(extra))
             result   == dedup_for_merge(combined, 1, {}, <<>>)
         IN  [status |-> "ok", ret |-> Len(result), target |-> Doc("obj", result),
              seq |-> result, ops |-> <<ReadExtra, ReadTarget, WriteTarget>>]

merge_extra_into_profiles(extra, target) ==
    IF ~Exists(extra)
    THEN [status |-> "noop", ret |-> 0, target |-> target, seq |-> <<>>, ops |-> <<>>]
    ELSE IF LoadRaises(extra)
    THEN [status |-> "raised", ret |-> 0, target |-> target, seq |-> <<>>,
          ops |-> <<ReadExtra>>]
    ELSE IF \/ LoadRaises(target)
            \/ PerfilesRaises(extra) \/ PerfilesRaises(target)
            \/ AnyKeyRaises(Combined(_normalize_perfiles(target), _normalize_perfiles(extra)))
    THEN [status |-> "raised", ret |-> 0, target |-> target, seq |-> <<>>,
          ops |-> <<ReadExtra, ReadTarget>>]
    ELSE LET combined == Combined(_normalize_perfiles(target), _normalize_perfiles(extra))
             result   == dedup_for_merge(combined, 1, {}, <<>>)
         IN  [status |-> "ok", ret |-> Len(result), target |-> Doc("obj", result),
              seq |-> result, ops |-> <<ReadExtra, ReadTarget, WriteTarget>>]

(***************************************************************************)
(* merge_files(input_files, target_path)                                   *)
(***************************************************************************)
\* what one input file adds to all_profiles: nothing when it cannot be read
\* (the exception is caught) or holds no dict
InputProfiles(doc) ==
    IF LoadRaises(doc) THEN <<>> ELSE merge_all_normalize_perfiles(doc)

RECURSIVE AllInputProfiles(_)
AllInputProfiles(docs) ==
    IF docs = <<>> THEN <<>>
    ELSE InputProfiles(Head(docs)) \o AllInputProfiles(Tail(docs))

\* all_profiles = perf + all_profiles, when the target exists and reads
WithExisting(target, all_profiles) == InputProfiles(target) \o all_profiles

merge_files(inputs, target) ==
    LET all_profiles == WithExisting(target, AllInputProfiles(inputs))
        result       == dedup_merge_all(all_profiles, 1, {}, <<>>)
    IN  [status |-> "ok", ret |-> Len(result), target |-> Doc("obj", result),
         seq |-> result]

(***************************************************************************)
(* Paths.  A path is a sequence of tokens: "/" first when absolute, then   *)
(* directory tokens (ending in "/"), then the characters of the file stem  *)
(* and last the extension token (".png").  None is the empty sequence.     *)
(***************************************************************************)
NoPath == <<>>
PROJECT_ROOT       == <<"/", "proj/">>
DEFAULT_PHOTOS_DIR == PROJECT_ROOT \o <<"cv_template/", "assets/", "photos/">>
PROCESSED_DIRNAME  == PROJECT_ROOT \o <<"output/", "_photos_processed/">>

DirTokens == {"/", "proj/", "cv_template/", "assets/", "photos/", "output/", "_photos_processed/", "tmp/"}
PhotoExts == {".png", ".jpg", ".jpeg", ".webp"}
ExtTokens == PhotoExts \cup {".txt"}

IsAbs(path) == path # <<>> /\ path[1] = "/"
PathExists(disk, path) == path \in disk
\* os.path.join(dir, rel) for a relative rel
Join(dir, rel) == dir \o rel

\* os.path.basename: the tokens after the last directory token
RECURSIVE BaseName(_)
BaseName(path) ==
    IF path = <<>> THEN <<>>
    ELSE IF \E i \in 1..Len(path) : path[i] \in DirTokens
    THEN BaseName(Tail(path))
    ELSE path

\* os.path.splitext(fn)
HasExt(fn)  == fn # <<>> /\ fn[Len(fn)] \in ExtTokens
StemOf(fn)  == IF HasExt(fn) THEN SubSeq(fn, 1, Len(fn) - 1) ELSE fn
ExtOf(fn)   == IF HasExt(fn) THEN fn[Len(fn)] ELSE ""

(***************************************************************************)
(* resolve_photo_path(ruta)                                                *)
(***************************************************************************)
\* os.path.isabs raises TypeError on a value that is no string
ResolveRaises(v) == Truthy(v) /\ v.t # "str"

resolve_photo_path(disk, v) ==
    IF ~Truthy(v) THEN NoPath
    ELSE IF IsAbs(v.s) THEN (IF PathExists(disk, v.s) THEN v.s ELSE NoPath)
    ELSE IF PathExists(disk, Join(PROJECT_ROOT, v.s)) THEN Join(PROJECT_ROOT, v.s)
    ELSE IF PathExists(disk, Join(DEFAULT_PHOTOS_DIR, v.s)) THEN Join(DEFAULT_PHOTOS_DIR, v.s)
    ELSE NoPath

(***************************************************************************)
(* _slug and _find_photo_by_name_guess                                     *)
(***************************************************************************)
\* NFKD decomposition without the combining marks; the token "e'" stands for
\* the one character e with an acute accent
Unaccent(c) == IF c = "e'" THEN "e" ELSE c
IsAlnum(c)  == c \in {"a", "b", "e", "p", "1"}

RECURSIVE SlugChars(_)
SlugChars(s) ==
    IF s = <<>> THEN <<>>
    ELSE LET ch == Head(s)
         IN  IF IsAlnum(ch) THEN <<ch>> \o SlugChars(Tail(s))
             ELSE IF ch \in {" ", "-", "_"} THEN <<"-">> \o SlugChars(Tail(s))
             ELSE SlugChars(Tail(s))

RECURSIVE CollapseHyphens(_)
CollapseHyphens(s) ==
    IF Len(s) < 2 THEN s
    ELSE IF s[1] = "-" /\ s[2] = "-" THEN CollapseHyphens(Tail(s))
    ELSE <<s[1]>> \o CollapseHyphens(Tail(s))

RECURSIVE StripHyphens(_)
StripHyphens(s) ==
    IF s # <<>> /\ Head(s) = "-" THEN StripHyphens(Tail(s))
    ELSE IF s # <<>> /\ s[Len(s)] = "-" THEN StripHyphens(SubSeq(s, 1, Len(s) - 1))
    ELSE s

_slug(s) ==
    StripHyphens(CollapseHyphens(SlugChars(Strip(Lower([i \in 1..Len(s) |-> Unaccent(s[i])])))))

\* a in b, for strings
IsSubstring(a, b) ==
    \E i \in 0..(Len(b) - Len(a)) : SubSeq(b, i + 1, i + Len(a)) = a

\* os.listdir(photos_dir): the files directly in the directory
ListDir(disk, dir) ==
    {BaseName(path) : path \in {q \in disk : Len(q) > Len(dir) /\ SubSeq(q, 1, Len(dir)) = dir
                                             /\ Join(dir, BaseName(q)) = q}}

\* _slug raises TypeError on a value that is no string
GuessRaises(v) == Truthy(v) /\ v.t # "str"

\* The files the scan can return.  os.listdir gives no order, so the first
\* match is any of the matches; the empty set stands for None.
NameGuessMatches(disk, dir, v) ==
    IF ~Truthy(v) THEN {}
    ELSE LET slug == _slug(v.s)
         IN  {Join(dir, fn) : fn \in {g \in ListDir(disk, dir) :
                                        /\ ExtOf(g) \in PhotoExts
                                        /\ \/ IsSubstring(slug, _slug(StemOf(g)))
                                           \/ IsSubstring(_slug(StemOf(g)), slug)}}

\* what _find_photo_by_name_guess may return
_find_photo_by_name_guess(disk, dir, v) ==
    IF NameGuessMatches(disk, dir, v) = {} THEN {NoPath} ELSE NameGuessMatches(disk, dir, v)

(***************************************************************************)
(* _find_photo_by_basename(photos_dir, base): called by                    *)
(* load_profiles_from_excel only                                           *)
(***************************************************************************)
\* the extensions probed, in the order of preference
ProbedExts == <<".png", ".jpg", ".jpeg", ".webp">>

_find_photo_by_basename(disk, photos_dir, base) ==
    IF base = <<>> THEN NoPath
    ELSE IF HasExt(base)
    THEN (IF PathExists(disk, Join(photos_dir, base)) THEN Join(photos_dir, base) ELSE NoPath)
    ELSE LET Found(e)   == PathExists(disk, Join(photos_dir, StemOf(base) \o <<e>>))
             candidates == SelectSeq(ProbedExts, Found)
         IN  IF candidates = <<>> THEN NoPath
             ELSE Join(photos_dir, StemOf(base) \o <<Head(candidates)>>)

(***************************************************************************)
(* preprocess_photo: the path of the processed file                        *)
(***************************************************************************)
ProcessedPath(src) == Join(PROCESSED_DIRNAME, StemOf(BaseName(src)) \o <<"_", "px", ".jpg">>)

\* preprocess_photo raises without Pillow, or when the image cannot be read
PreprocessRaises(hasPillow, imgOk) == ~hasPillow \/ ~imgOk

(***************************************************************************)
(* preprocess_photo: the search of the JPEG quality (lines 116-128).  The  *)
(* encoder is told by the set of qualities at which the file it writes is  *)
(* no larger than max_bytes; nothing in the code makes that set an         *)
(* interval that starts at the lowest quality.                             *)
(***************************************************************************)
\* low, high = 40, 95
QualityLow  == 40
QualityHigh == 95
Qualities   == QualityLow..QualityHigh

\* q = (low + high) // 2
ProbeQuality(lo, hi) == (lo + hi) \div 2

\* size <= max_bytes, for the file saved at quality q
SizeFits(fits, q) == q \in fits

\* a search that takes the last quality tried, whether it fitted or not
NextBest_LastTried(q, best, fit) == q

\* `best_quality = q` in the branch of a fit
NextBest(q, best, fit) == IF fit THEN q ELSE best

\* `low = q + 1` in the branch of a fit
NextLow(q, lo, fit) == IF fit THEN q + 1 ELSE lo

\* `high = q - 1` in the other branch
NextHigh(q, hi, fit) == IF fit THEN hi ELSE q - 1

(***************************************************************************)
(* construir_cv(data): raises on a name that is no string                  *)
(* (data["nombre"].strip()) and when the document cannot be saved          *)
(***************************************************************************)
construir_cv_raises(data, ioFail) == ioFail = "save" \/ data["nombre"].t # "str"

\* ensure_dir(outdir) raises when the directory cannot be created
EnsureDirRaises(ioFail) == ioFail = "outdir"

(***************************************************************************)
(* build_one(profile, outdir, process_photos, target_px, max_bytes)        *)
(* The result records what the call did:                                   *)
(*   outcome  "raised" (an exception left build_one), "skipped" (the       *)
(*            early return of an invalid profile) or "rendered"            *)
(*            (construir_cv returned)                                      *)
(*   stage    where the exception was raised                               *)
(* guess, imgOk and ioFail are what the environment answers: the file the  *)
(* directory scan finds first, whether Pillow can read the image, and      *)
(* which write fails ("none", "outdir" for ensure_dir, "save" for the      *)
(* document).                                                              *)
(***************************************************************************)
NoEvent(p, v) ==
    [elem |-> p, v |-> v, outcome |-> "skipped", stage |-> "", warnMissing |-> <<>>,
     resolveCalled |-> FALSE, guessCalled |-> FALSE, info |-> FALSE,
     preprocessCalled |-> FALSE, preprocessWarn |-> FALSE, rendererCalled |-> FALSE,
     incluir |-> FALSE, ruta0 |-> NoPath, guess |-> NoPath,
     ruta |-> NoPath, data |-> <<>>, after |-> p]

\* a build_one without the early return
SkipsInvalid_Never(v) == FALSE

\* `if not ok: ... return`
SkipsInvalid(v) == ~v.ok

\* data = profile, the record itself
DataIsProfile_Alias == TRUE

\* `data = dict(profile)`: data is a new dict, whose assignments are not
\* assignments to the profile
DataIsProfile == FALSE

\* the fields of the profile once build_one has assigned data['ruta_foto']
ProfileAfter(f, data) == IF DataIsProfile THEN data ELSE f

\* a name guess whenever a photo is asked for
Guessing_Always(incluir, ruta0) == incluir

\* `if incluir_foto and not ruta_foto:`
Guessing(incluir, ruta0) == incluir /\ ruta0 = NoPath

\* a test that forgets the path
ShouldProcess_NoPathTest(incluir, ruta, process_photos) == incluir /\ process_photos

\* `if incluir_foto and ruta_foto and process_photos:`
ShouldProcess(incluir, ruta, process_photos) == incluir /\ ruta # NoPath /\ process_photos

\* a handler that drops the photo
FallbackPath_None(ruta) == NoPath

\* `data['ruta_foto'] = ruta_foto` of the except branch
FallbackPath(ruta) == ruta

\* data['ruta_foto'] = <path or None>
PathValue(path) == IF path = NoPath THEN JNull ELSE JStr(path)

build_one(p, disk, process_photos, hasPillow, guess, imgOk, ioFail) ==
    LET v  == validate_profile(p)
        e0 == NoEvent(p, v)
    IN
    IF v.raised THEN [e0 EXCEPT !.outcome = "raised", !.stage = "validate"]
    ELSE IF SkipsInvalid(v) THEN [e0 EXCEPT !.warnMissing = v.missing]
    ELSE
    LET f       == p.f
        rv      == Get(f, "ruta_foto", JNull)
        e1      == [e0 EXCEPT !.resolveCalled = TRUE]
    IN
    IF ResolveRaises(rv) THEN [e1 EXCEPT !.outcome = "raised", !.stage = "photo"]
    ELSE
    LET ruta0    == resolve_photo_path(disk, rv)
        incluir  == Truthy(Get(f, "incluir_foto", JNull))
        guessing == Guessing(incluir, ruta0)
        nombre   == Get(f, "nombre", JStr(<<>>))
        e2       == [e1 EXCEPT !.guessCalled = guessing, !.incluir = incluir,
                               !.ruta0 = ruta0]
    IN
    IF guessing /\ GuessRaises(nombre)
    THEN [e2 EXCEPT !.outcome = "raised", !.stage = "photo"]
    ELSE
    LET ruta    == IF guessing /\ guess # NoPath THEN guess ELSE ruta0
        e3      == [e2 EXCEPT !.info = (guessing /\ guess = NoPath), !.ruta = ruta,
                              !.guess = IF guessing THEN guess ELSE NoPath]
        process == ShouldProcess(incluir, ruta, process_photos)
        failed  == process /\ (ruta = NoPath \/ PreprocessRaises(hasPillow, imgOk))
        final   == IF process /\ ~failed THEN ProcessedPath(ruta)
                   ELSE IF process THEN FallbackPath(ruta)
                   ELSE ruta
        data    == With(f, "ruta_foto", PathValue(final))
        e4      == [e3 EXCEPT !.preprocessCalled = process, !.preprocessWarn = failed,
                              !.data = data, !.after = Dict(ProfileAfter(f, data))]
        e5      == [e4 EXCEPT !.rendererCalled = TRUE]
    IN
    IF EnsureDirRaises(ioFail) THEN [e4 EXCEPT !.outcome = "raised", !.stage = "outdir"]
    ELSE IF construir_cv_raises(data, ioFail)
    THEN [e5 EXCEPT !.outcome = "raised", !.stage = "render"]
    ELSE [e5 EXCEPT !.outcome = "rendered"]

\* the guesses the directory scan can answer for this profile
Guesses(p, disk) ==
    IF p.kind = "dict"
    THEN _find_photo_by_name_guess(disk, DEFAULT_PHOTOS_DIR, Get(p.f, "nombre", JStr(<<>>)))
    ELSE {NoPath}

(***************************************************************************)
(* main(): its stages                                                      *)
(***************************************************************************)
\* a main() that merges on disk whatever the flag
MergeRequested_Always(a) == TRUE

\* `if args.merge_extra_to_profiles:`
MergeRequested(a) == a.merge_extra_to_profiles

\* a main() that reads the file --input names
InputPath_FromArgs(a) == a.input

\* `input_path = DEFAULT_PROFILES_FILE`
InputPath(a) == DEFAULT_PROFILES_FILE

\* lines 480-489: [raised, perfiles]
load_profiles(doc) ==
    IF LoadRaises(doc) \/ NormalizeRaises(doc)
    THEN [raised |-> TRUE, perfiles |-> <<>>]
    ELSE [raised |-> FALSE, perfiles |-> normalize_profiles(doc)]

\* an in-memory merge that keeps the duplicates
in_memory_merge_NoDedup(primary, extra) ==
    IF ~Exists(extra) THEN [status |-> "absent", perfiles |-> primary]
    ELSE IF \/ LoadRaises(extra) \/ NormalizeRaises(extra)
            \/ AnyKeyRaises(Combined(primary, normalize_profiles(extra)))
    THEN [status |-> "warn", perfiles |-> primary]
    ELSE [status |-> "ok", perfiles |-> Combined(primary, normalize_profiles(extra))]

\* lines 491-509: the in-memory merge of the extra file.
\*   "absent"  the extra file does not exist
\*   "warn"    an exception was caught: perfiles is left as loaded
\*   "ok"      perfiles = dedup
in_memory_merge(primary, extra) ==
    IF ~Exists(extra) THEN [status |-> "absent", perfiles |-> primary]
    ELSE IF \/ LoadRaises(extra) \/ NormalizeRaises(extra)
            \/ AnyKeyRaises(Combined(primary, normalize_profiles(extra)))
    THEN [status |-> "warn", perfiles |-> primary]
    ELSE [status |-> "ok",
          perfiles |-> dedup_for_merge(Combined(primary, normalize_profiles(extra)), 1, {}, <<>>)]

\* a main() without the test of line 511
PillowMissing_Never(a, hasPillow) == FALSE

\* line 511
PillowMissing(a, hasPillow) == a.process_photos /\ ~hasPillow

\* a loop body without the try/except: the exception ends the run
LoopBodyPc_NoCatch(e) == IF e.outcome = "raised" THEN "exit" ELSE "loop"

\* the try/except of the loop body: where main() goes after one build_one
LoopBodyPc(e) == "loop"

\* `count += 1` runs when build_one returned
CountAfter(c, e) == IF e.outcome = "raised" THEN c ELSE c + 1

(***************************************************************************)
(* The inputs of the model                                                 *)
(***************************************************************************)
PA  == Dict(BaseProfile)
\* same name and title as PA once trimmed and lowercased, other content
PA2 == Dict(With(BaseProfile, "nombre", JStr(<<"a", " ">>)))
PB  == Dict(With(BaseProfile, "nombre", JStr(<<"B">>)))
\* lacks habilidades
PI  == Dict(Without(BaseProfile, "habilidades"))
\* asks for a photo, by a relative path
PF  == Dict(With(With(BaseProfile, "incluir_foto", JTrue), "ruta_foto",
                 JStr(<<"tmp/", "p", ".png">>)))
\* a photo path that is no string
PX  == Dict(With(With(BaseProfile, "incluir_foto", JTrue), "ruta_foto", JNum(<<"1">>)))

BatchPool == {PA, PF, PI, PX, Scalar}
MergePool == {PA, PA2, PB, Scalar}

Seqs(S, n) == UNION {[1..k -> S] : k \in 0..n}

\* the documents a file can hold
Docs(S, n) ==
    {Missing, Malformed, OtherJson}
    \cup {Doc(sh, items) : sh \in {"obj", "list"}, items \in Seqs(S, n)}
    \cup {Doc("single", <<p>>) : p \in {q \in S : q.kind = "dict"}}

\* profiles.json of a run: main() takes a single object as any other value
\* that is neither accepted shape
ProfileDocs ==
    {Missing, Malformed, OtherJson}
    \cup {Doc(sh, items) : sh \in {"obj", "list"}, items \in Seqs(BatchPool, MaxLen)}

\* perfiles_generados_extra.json of a run
ExtraDocs ==
    {Missing, Malformed, OtherJson,
     Doc("list", <<PF>>), Doc("list", <<Scalar>>), Doc("obj", <<PA, PI>>)}

\* the photo files on disk
FSChoices ==
    {{},
     {Join(PROJECT_ROOT, <<"tmp/", "p", ".png">>)},
     {Join(DEFAULT_PHOTOS_DIR, <<"a", ".jpg">>), Join(DEFAULT_PHOTOS_DIR, <<"p", ".png">>)}}

\* the command lines that name the default files only
DefaultArgs ==
    [merge_extra_to_profiles : BOOLEAN, process_photos : BOOLEAN,
     input : {DEFAULT_PROFILES_FILE}, profiles_file : {DEFAULT_PROFILES_FILE},
     extra_file : {DEFAULT_EXTRA_FILE}]

\* the command lines that name another file with --input, --profiles-file or
\* --extra-file
AltArgs ==
    [merge_extra_to_profiles : BOOLEAN, process_photos : {FALSE},
     input : {DEFAULT_PROFILES_FILE, AltFile},
     profiles_file : {DEFAULT_PROFILES_FILE, AltFile},
     extra_file : {DEFAULT_EXTRA_FILE, AltFile}] \ DefaultArgs

ArgsChoices == DefaultArgs \cup AltArgs

\* the files of a run that names the default files only
DefaultFiles == [profiles : ProfileDocs, extra : ExtraDocs, alt : {Missing}]

\* the files of a run that names another file
AltFiles ==
    [profiles : {Missing, OtherJson, Doc("list", <<PA>>), Doc("obj", <<PA, PI>>)},
     extra    : {Missing, Doc("obj", <<PA>>), Doc("list", <<PF>>), Doc("list", <<Scalar>>)},
     alt      : {Missing, Malformed, Doc("list", <<PB>>), Doc("obj", <<PB, PA>>)}]

NoOut == [summary |-> -1, exitcode |-> -1, inmem |-> "none"]
NoRec ==
    [ran |-> FALSE, inT |-> Missing, inB |-> <<>>, status |-> "", ret |-> 0, seq |-> <<>>,
     outT |-> Missing, ops |-> <<>>]

BatchIdle ==
    /\ pc = "idle"
    /\ args = [merge_extra_to_profiles |-> FALSE, process_photos |-> FALSE,
               input |-> DEFAULT_PROFILES_FILE, profiles_file |-> DEFAULT_PROFILES_FILE,
               extra_file |-> DEFAULT_EXTRA_FILE]
    /\ files = [profiles |-> Missing, extra |-> Missing, alt |-> Missing] /\ files0 = files
    /\ fs = {} /\ pillow = FALSE /\ perfiles = <<>> /\ idx = 0 /\ count = 0
    /\ events = <<>> /\ out = NoOut
ValIdle == vIn = Scalar /\ vOut = NoResult /\ vpc = "idle"
MergeIdle ==
    /\ mTarget = Missing /\ mExtra = Missing /\ mTarget0 = Missing
    /\ mDisk = NoRec /\ mMem = NoRec /\ mFiles = NoRec /\ mN = 0
NoNorm == [done |-> FALSE, raised |-> FALSE, items |-> <<>>]
NormIdle == nDoc = OtherJson /\ nBatch = NoNorm /\ nMerge = NoNorm /\ nAll = NoNorm
CompIdle ==
    /\ cFits = {} /\ low = 0 /\ high = 0 /\ best_quality = 0
    /\ cTried = {} /\ cWritten = 0 /\ cpc = "idle"

(***************************************************************************)
(* SpecValidate                                                            *)
(***************************************************************************)
InitValidate ==
    /\ vIn \in ValidateInputs /\ vOut = NoResult /\ vpc = "call"
    /\ BatchIdle /\ MergeIdle /\ NormIdle /\ CompIdle

Validate ==
    /\ vpc = "call"
    /\ vOut' = validate_profile(vIn)
    /\ vpc' = "done"
    /\ UNCHANGED <<vIn, batchVars, mergeVars, normVars, compVars>>

NextValidate == Validate
SpecValidate == InitValidate /\ [][NextValidate]_vars

(***************************************************************************)
(* Spec: one run of main()                                                 *)
(***************************************************************************)
Init ==
    /\ pc = "start"
    /\ args \in ArgsChoices
    /\ files \in (IF args \in AltArgs THEN AltFiles ELSE DefaultFiles)
    /\ files0 = files
    /\ fs \in FSChoices
    \* Pillow is imported only when --process-photos is given
    /\ pillow \in (IF args.process_photos THEN BOOLEAN ELSE {TRUE})
    /\ perfiles = <<>> /\ idx = 0 /\ count = 0 /\ events = <<>> /\ out = NoOut
    /\ ValIdle /\ MergeIdle /\ NormIdle /\ CompIdle

Exit(code) == pc' = "exit" /\ out' = [out EXCEPT !.exitcode = code]

\* lines 466-472
MainMerge ==
    /\ pc = "start"
    /\ LET r == merge_extra_into_profiles(files[args.extra_file], files[args.profiles_file])
       IN  IF MergeRequested(args)
           THEN IF r.status = "raised"
                THEN Exit(1) /\ UNCHANGED files
                ELSE /\ files' = [files EXCEPT ![args.profiles_file] = r.target]
                     /\ pc' = "load" /\ UNCHANGED out
           ELSE pc' = "load" /\ UNCHANGED <<files, out>>
    /\ UNCHANGED <<args, files0, fs, pillow, perfiles, idx, count, events, valVars, mergeVars, normVars, compVars>>

\* lines 474-489
MainLoad ==
    /\ pc = "load"
    /\ LET r == load_profiles(files[InputPath(args)])
       IN  IF r.raised
           THEN Exit(1) /\ UNCHANGED perfiles
           ELSE perfiles' = r.perfiles /\ pc' = "inmem" /\ UNCHANGED out
    /\ UNCHANGED <<args, files, files0, fs, pillow, idx, count, events, valVars, mergeVars, normVars, compVars>>

\* lines 491-509
MainInMemory ==
    /\ pc = "inmem"
    /\ LET r == in_memory_merge(perfiles, files[DEFAULT_EXTRA_FILE])
       IN  /\ perfiles' = r.perfiles
           /\ out' = [out EXCEPT !.inmem = r.status]
    /\ pc' = "pillow"
    /\ UNCHANGED <<args, files, files0, fs, pillow, idx, count, events, valVars, mergeVars, normVars, compVars>>

\* lines 511-515
MainPillow ==
    /\ pc = "pillow"
    /\ IF PillowMissing(args, pillow)
       THEN Exit(2) /\ UNCHANGED count
       ELSE pc' = "loop" /\ count' = 0 /\ UNCHANGED out
    /\ UNCHANGED <<args, files, files0, fs, pillow, perfiles, idx, events, valVars, mergeVars, normVars, compVars>>

\* lines 516-521: one iteration
MainLoop ==
    /\ pc = "loop"
    /\ idx < Len(perfiles)
    \* Pillow opens an image only with --process-photos
    /\ \E guess \in Guesses(perfiles[idx + 1], fs),
          imgOk \in (IF args.process_photos THEN BOOLEAN ELSE {TRUE}),
          ioFail \in {"none", "outdir", "save"} :
          LET e == build_one(perfiles[idx + 1], fs, args.process_photos, pillow,
                             guess, imgOk, ioFail)
          IN  /\ events' = Append(events, e)
              \* the list holds the record build_one was given
              /\ perfiles' = [perfiles EXCEPT ![idx + 1] = e.after]
              /\ count' = CountAfter(count, e)
              /\ pc' = LoopBodyPc(e)
    /\ idx' = idx + 1
    /\ UNCHANGED <<args, files, files0, fs, pillow, out, valVars, mergeVars, normVars, compVars>>

\* line 523
MainSummary ==
    /\ pc = "loop"
    /\ idx = Len(perfiles)
    /\ out' = [out EXCEPT !.summary = count, !.exitcode = 0]
    /\ pc' = "done"
    /\ UNCHANGED <<args, files, files0, fs, pillow, perfiles, idx, count, events, valVars, mergeVars, normVars, compVars>>

Next == MainMerge \/ MainLoad \/ MainInMemory \/ MainPillow \/ MainLoop \/ MainSummary
Spec == Init /\ [][Next]_vars

(***************************************************************************)
(* SpecMerge: the merge routines on a target file and an extra file.       *)
(*   OnDiskMerge    main() lines 466-472 with --merge-extra-to-profiles    *)
(*   InMemoryMerge  main() lines 480-509                                   *)
(*   MergeFiles     merge_all_profiles.merge_files                         *)
(* Each records its inputs and what it produced; the two that write leave  *)
(* their result in the target file, so a later merge starts from it.       *)
(***************************************************************************)
\* the extra file: the target itself (a collection merged into itself) or
\* one of these
MergeExtras ==
    {Missing, Malformed, Doc("single", <<PB>>),
     Doc("list", <<PA2, PA>>), Doc("list", <<PB, PA, PB>>), Doc("obj", <<Scalar, PA>>)}

InitMerge ==
    /\ mTarget \in Docs(MergePool, MaxMergeLen)
    /\ mExtra \in {mTarget} \cup MergeExtras
    /\ mTarget0 = mTarget
    /\ mDisk = NoRec /\ mMem = NoRec /\ mFiles = NoRec /\ mN = 0
    /\ BatchIdle /\ ValIdle /\ NormIdle /\ CompIdle

\* how main() ends the on-disk merge: exit 1 on an exception
OnDiskStatus(r) == IF r.status = "raised" THEN "exit1" ELSE r.status

OnDiskMerge ==
    /\ mN < MaxMerges
    /\ LET r == merge_extra_into_profiles(mExtra, mTarget)
       IN  /\ mTarget' = r.target
           /\ mDisk' = [ran |-> TRUE, inT |-> mTarget, inB |-> <<mExtra>>,
                        status |-> OnDiskStatus(r), ret |-> r.ret, seq |-> r.seq,
                        outT |-> r.target, ops |-> r.ops]
    /\ mN' = mN + 1
    /\ UNCHANGED <<mExtra, mTarget0, mMem, mFiles, batchVars, valVars, normVars, compVars>>

\* how main() ends the load and the in-memory merge: exit 1 when
\* profiles.json cannot be read, else the status of the merge
InMemoryOutcome(primary, extra) ==
    LET l == load_profiles(primary)
        r == in_memory_merge(l.perfiles, extra)
    IN  IF l.raised THEN [status |-> "exit1", perfiles |-> <<>>] ELSE r

InMemoryMerge ==
    /\ mN < MaxMerges
    /\ LET r == InMemoryOutcome(mTarget, mExtra)
       IN  mMem' = [ran |-> TRUE, inT |-> mTarget, inB |-> <<mExtra>>,
                    status |-> r.status, ret |-> Len(r.perfiles), seq |-> r.perfiles,
                    outT |-> mTarget, ops |-> <<>>]
    /\ UNCHANGED <<mTarget, mExtra, mTarget0, mDisk, mFiles, mN, batchVars, valVars, normVars, compVars>>

MergeFiles ==
    /\ mN < MaxMerges
    /\ \E inputs \in {<<mExtra>>, <<mExtra, mExtra>>} :
          LET r == merge_files(inputs, mTarget)
          IN  /\ mTarget' = r.target
              /\ mFiles' = [ran |-> TRUE, inT |-> mTarget, inB |-> inputs,
                            status |-> r.status, ret |-> r.ret, seq |-> r.seq,
                            outT |-> r.target, ops |-> <<>>]
    /\ mN' = mN + 1
    /\ UNCHANGED <<mExtra, mTarget0, mDisk, mMem, batchVars, valVars, normVars, compVars>>

NextMerge == OnDiskMerge \/ InMemoryMerge \/ MergeFiles
SpecMerge == InitMerge /\ [][NextMerge]_vars

(***************************************************************************)
(* SpecNormalize: each of the three normalisers applied to the value that  *)
(* json.load returned.                                                     *)
(***************************************************************************)
\* an object that has neither "perfiles" nor "nombre" nor "cargo"
PlainObject == Dict([resumen |-> JStr(<<"x">>)])

\* the values json.load can return
NormalizeInputs ==
    {d \in Docs(MergePool, MaxMergeLen) : ~LoadRaises(d)}
    \cup {Doc("single", <<PlainObject>>)}

InitNormalize ==
    /\ nDoc \in NormalizeInputs
    /\ nBatch = NoNorm /\ nMerge = NoNorm /\ nAll = NoNorm
    /\ BatchIdle /\ ValIdle /\ MergeIdle /\ CompIdle

\* normalize_profiles(data), batch_generate_cv.py
NormalizeProfiles ==
    /\ ~nBatch.done
    /\ nBatch' = IF NormalizeRaises(nDoc)
                 THEN [done |-> TRUE, raised |-> TRUE, items |-> <<>>]
                 ELSE [done |-> TRUE, raised |-> FALSE, items |-> normalize_profiles(nDoc)]
    /\ UNCHANGED <<nDoc, nMerge, nAll, batchVars, valVars, mergeVars, compVars>>

\* _normalize_perfiles(data), batch_generate_cv.py
NormalizePerfiles ==
    /\ ~nMerge.done
    /\ nMerge' = IF PerfilesRaises(nDoc)
                 THEN [done |-> TRUE, raised |-> TRUE, items |-> <<>>]
                 ELSE [done |-> TRUE, raised |-> FALSE, items |-> _normalize_perfiles(nDoc)]
    /\ UNCHANGED <<nDoc, nBatch, nAll, batchVars, valVars, mergeVars, compVars>>

\* _normalize_perfiles(doc), merge_all_profiles.py
NormalizePerfilesMergeAll ==
    /\ ~nAll.done
    /\ nAll' = [done |-> TRUE, raised |-> FALSE, items |-> merge_all_normalize_perfiles(nDoc)]
    /\ UNCHANGED <<nDoc, nBatch, nMerge, batchVars, valVars, mergeVars, compVars>>

NextNormalize == NormalizeProfiles \/ NormalizePerfiles \/ NormalizePerfilesMergeAll
SpecNormalize == InitNormalize /\ [][NextNormalize]_vars

(***************************************************************************)
(* SpecCompress: the quality search of preprocess_photo, one iteration of  *)
(* the while loop per step, then the final save.                           *)
(***************************************************************************)
\* the sets of fitting qualities: none, and every run of consecutive
\* qualities
FitSets == {{}} \cup {a..b : a \in Qualities, b \in Qualities}

InitCompress ==
    /\ cFits \in FitSets
    /\ low = QualityLow /\ high = QualityHigh
    /\ best_quality = QualityHigh
    /\ cTried = {} /\ cWritten = 0 /\ cpc = "search"
    /\ BatchIdle /\ ValIdle /\ MergeIdle /\ NormIdle

\* lines 119-127: one iteration
Probe ==
    /\ cpc = "search"
    /\ low <= high
    /\ LET q   == ProbeQuality(low, high)
           fit == SizeFits(cFits, q)
       IN  /\ cWritten' = q
           /\ cTried' = cTried \cup {q}
           /\ best_quality' = NextBest(q, best_quality, fit)
           /\ low' = NextLow(q, low, fit)
           /\ high' = NextHigh(q, high, fit)
    /\ UNCHANGED <<cFits, cpc, batchVars, valVars, mergeVars, normVars>>

\* line 128: im.save(out_path, quality=best_quality) after the loop
FinalSave ==
    /\ cpc = "search"
    /\ low > high
    /\ cWritten' = best_quality
    /\ cpc' = "done"
    /\ UNCHANGED <<cFits, low, high, best_quality, cTried, batchVars, valVars, mergeVars, normVars>>

NextCompress == Probe \/ FinalSave
SpecCompress == InitCompress /\ [][NextCompress]_vars

(***************************************************************************)
(* Helpers of the properties                                               *)
(***************************************************************************)
\* the elements of s whose index passes Keep, in order
SubseqByIdx(s, Keep(_)) ==
    LET F[i \in 0..Len(s)] ==
            IF i = 0 THEN <<>>
            ELSE IF Keep(i) THEN Append(F[i - 1], s[i]) ELSE F[i - 1]
    IN  F[Len(s)]

\* s without the later occurrences of equal elements
NoDup(s) ==
    LET Keep(i) == \A j \in 1..(i - 1) : s[j] # s[i]
    IN  SubseqByIdx(s, Keep)

\* deduplicated A, then the elements of B that are neither in A nor earlier in B
ExpectedMerge(A, B) ==
    LET Keep(i) == B[i] \notin Range(A) /\ \A j \in 1..(i - 1) : B[j] # B[i]
    IN  NoDup(A) \o SubseqByIdx(B, Keep)

RenderedCount == Cardinality({i \in 1..Len(events) : events[i].outcome = "rendered"})

(***************************************************************************)
(* Properties of Spec                                                      *)
(***************************************************************************)
\* C1: per-item isolation.  build_one is attempted on each profile of the
\* list exactly once and in input order; once the loop has started the run
\* never exits, whatever build_one raised, and it ends with the summary
\* after the last profile.
C1_PerItemIsolation ==
    /\ Len(events) = idx
    /\ idx <= Len(perfiles)
    /\ \A i \in 1..Len(events) : events[i].elem = perfiles[i]
    /\ pc = "exit" => events = <<>> /\ out.summary = -1
    /\ events # <<>> => pc \in {"loop", "done"}
    /\ pc = "done" => Len(events) = Len(perfiles) /\ out.summary >= 0 /\ out.exitcode = 0

\* a finished run where a profile raised in validation and the next one was
\* rendered
C1_Witness ==
    /\ pc = "done"
    /\ \E i \in 1..(Len(events) - 1) :
          /\ events[i].outcome = "raised" /\ events[i].stage = "validate"
          /\ events[i + 1].outcome = "rendered"

\* C2 (as claimed): the count of the summary line is the number of profiles
\* that were rendered.
C2_SummaryCountsRendered == pc = "done" => out.summary = RenderedCount

\* C5: an invalid profile is skipped.  Its missing fields are logged, no
\* photo is resolved or processed, the renderer is not called, nothing is
\* raised and the run goes on.
C5_InvalidIsSkipped ==
    \A i \in 1..Len(events) :
        LET e == events[i]
        IN  (~e.v.raised /\ ~e.v.ok) =>
                /\ e.outcome = "skipped"
                /\ e.warnMissing = e.v.missing /\ e.warnMissing # <<>>
                /\ ~e.resolveCalled /\ ~e.guessCalled /\ ~e.preprocessCalled
                /\ ~e.rendererCalled
                /\ pc \in {"loop", "done"}
                /\ (pc = "done" => Len(events) = Len(perfiles))

\* an invalid profile skipped, the next one rendered
C5_Witness ==
    \E i \in 1..(Len(events) - 1) :
        /\ ~events[i].v.raised /\ ~events[i].v.ok /\ events[i].outcome = "skipped"
        /\ "habilidades" \in Range(events[i].warnMissing)
        /\ events[i + 1].outcome = "rendered"

C3_Eight == {"nombre", "cargo", "contacto", "resumen", "experiencias", "educacion",
             "habilidades", "idiomas"}
C3_Seven == C3_Eight \ {"contacto"}

\* C3 (amended): a profile object is valid iff each of the eight keys
\* nombre, cargo, contacto, resumen, experiencias, educacion, habilidades,
\* idiomas is present with a value other than null, "" and []; nothing else
\* matters, and an empty idiomas object counts as present.
C3_ValidIffEightKeys ==
    (vpc = "done" /\ vIn.kind = "dict") =>
        /\ ~vOut.raised
        /\ vOut.ok <=> \A k \in C3_Eight :
                          /\ k \in DOMAIN vIn.f
                          /\ vIn.f[k] \notin {JNull, JStr(<<>>), JList(<<>>)}
        /\ Range(vOut.missing) =
              {k \in C3_Eight : k \notin DOMAIN vIn.f
                                \/ vIn.f[k] \in {JNull, JStr(<<>>), JList(<<>>)}}

\* a profile with an empty idiomas object and no ubicacion, reported valid
C3_Witness ==
    /\ vpc = "done" /\ vIn.kind = "dict" /\ vOut.ok
    /\ vIn.f["idiomas"] = JDict(<<>>)
    /\ "ubicacion" \notin DOMAIN vIn.f

\* C3 (as claimed): valid iff the seven fields are present and non-empty,
\* an empty mapping being empty.
C3_ValidIffSevenFields ==
    (vpc = "done" /\ vIn.kind = "dict") =>
        (vOut.ok <=> \A k \in C3_Seven :
                        /\ k \in DOMAIN vIn.f
                        /\ vIn.f[k] \notin {JNull, JStr(<<>>), JList(<<>>), JDict(<<>>)})

\* C4 (as claimed): validate_profile raises on no element of a normalised
\* collection, and reports resumen for every element without that field.
C4_ValidatorTotal ==
    vpc = "done" =>
        /\ ~vOut.raised
        /\ (vIn.kind # "dict" \/ "resumen" \notin DOMAIN vIn.f)
              => "resumen" \in Range(vOut.missing)

(***************************************************************************)
(* Properties of SpecMerge                                                 *)
(***************************************************************************)
AllDicts(items) == \A i \in 1..Len(items) : items[i].kind = "dict"

\* the extra file holds the profiles the target held at the start: a
\* collection of profile objects, in either accepted shape
C6_Self ==
    /\ mTarget0.shape \in {"obj", "list"} /\ mExtra.shape \in {"obj", "list"}
    /\ AllDicts(mTarget0.items)
    /\ mExtra.items = mTarget0.items

\* C6 (amended): merging a collection C of profile objects into itself, by
\* merge_extra_into_profiles or by merge_files, once or several times,
\* leaves the target holding C without its later exact duplicates: C
\* itself when no profile occurs twice in C.
C6_SelfMergeDedups ==
    (mN >= 1 /\ C6_Self) =>
        /\ mTarget = Doc("obj", NoDup(mTarget0.items))
        /\ mDisk.ran => mDisk.status = "ok" /\ mDisk.ret = Len(NoDup(mTarget0.items))
        /\ mFiles.ran => mFiles.ret = Len(NoDup(mTarget0.items))

\* two distinct profiles merged into themselves by both routines
C6_Witness ==
    /\ mN = 2 /\ C6_Self /\ mDisk.ran /\ mFiles.ran
    /\ Len(mTarget0.items) = 2 /\ mTarget0.items[1] # mTarget0.items[2]
    /\ mTarget.items = mTarget0.items

\* C6 (as claimed): merging any collection into itself yields that
\* collection.
C6_SelfMergeYieldsSame ==
    (mN >= 1 /\ C6_Self) => mTarget.items = mTarget0.items

\* C7: the result of a merge is the deduplicated target followed by the
\* profiles of the further collection that are neither in the target nor
\* earlier in that collection, each part in its order.  For merge_files the
\* collections are the profile objects it reads from the target and from
\* its inputs.
C7_OrderPreserved ==
    /\ (mDisk.ran /\ mDisk.status = "ok") =>
          mDisk.seq = ExpectedMerge(mDisk.inT.items, mDisk.inB[1].items)
    /\ (mMem.ran /\ mMem.status = "ok") =>
          mMem.seq = ExpectedMerge(mMem.inT.items, mMem.inB[1].items)
    /\ mFiles.ran =>
          mFiles.seq = ExpectedMerge(InputProfiles(mFiles.inT), AllInputProfiles(mFiles.inB))

\* a target with a duplicate, an extra file with a profile of the target,
\* a new profile and its duplicate
C7_Witness ==
    /\ mDisk.ran /\ mDisk.status = "ok"
    /\ mDisk.inT.items = <<PA, PA>>
    /\ mDisk.inB[1].items = <<PB, PA, PB>>
    /\ mDisk.seq = <<PA, PB>>

C8_Merged(rec, A, B) ==
    /\ \A i, j \in 1..Len(rec.seq) : i # j => rec.seq[i] # rec.seq[j]
    /\ \A x \in Range(A \o B) : x \in Range(rec.seq)
    /\ \A x, y \in Range(A \o B) :
          (_profile_key_for_merge(x) = _profile_key_for_merge(y)) <=> (x = y)
    /\ \A x, y \in Range(A \o B) : (_profile_key(x) = _profile_key(y)) <=> (x = y)

C9_SameInputs == mDisk.ran /\ mMem.ran /\ mDisk.inT = mMem.inT /\ mDisk.inB = mMem.inB

\* C9 (amended): on the same two files one entry point merges iff the
\* other does, and then both produce the same sequence; without the
\* extra file neither merges.  They differ on failure: the on-disk merge
\* ends the run with exit 1, the in-memory merge does so only when
\* profiles.json itself cannot be read, and otherwise warns and goes on
\* with the profiles of profiles.json, unmerged.
C9_SameMergeOtherFailure ==
    C9_SameInputs =>
        /\ mDisk.status = "ok" <=> mMem.status = "ok"
        /\ mDisk.status = "ok" => mDisk.seq = mMem.seq
        /\ mDisk.status = "noop" <=> ~Exists(mDisk.inB[1])
        /\ mDisk.status = "noop" => mMem.status \in {"absent", "exit1"}
        /\ mDisk.status = "exit1" => mMem.status \in {"warn", "exit1"}
        /\ mMem.status = "warn" =>
              /\ mDisk.status = "exit1"
              /\ mMem.inT.shape \in {"obj", "list"}
              /\ mMem.seq = mMem.inT.items

\* an extra file that cannot be merged: exit 1 on disk, a warning in memory
C9_Witness ==
    /\ C9_SameInputs
    /\ mDisk.status = "exit1" /\ mMem.status = "warn"
    /\ Len(mMem.seq) > 0

\* C9 (as claimed): with the extra file present, both entry points produce
\* the same sequence or both fail in the same way.
C9_IdenticalSemantics ==
    (C9_SameInputs /\ Exists(mDisk.inB[1])) =>
        /\ mDisk.status = mMem.status
        /\ mDisk.status = "ok" => mDisk.seq = mMem.seq

(***************************************************************************)
(* Properties of SpecNormalize                                             *)
(***************************************************************************)
C11_TwoShapes(r) ==
    r.done =>
        /\ r.raised <=> nDoc.shape \notin {"obj", "list"}
        /\ ~r.raised => r.items = nDoc.items

\* C11 (amended): normalize_profiles and _normalize_perfiles of
\* batch_generate_cv.py accept exactly an object whose perfiles is a list
\* and a bare list, return that list with every element of it, and raise
\* on any other value.  _normalize_perfiles of merge_all_profiles.py never
\* raises: of the two shapes it keeps the elements that are objects, a
\* single object with nombre or cargo is a collection of one, and any
\* other value is the empty collection.
C11_BatchStrictMergeAllLenient ==
    /\ C11_TwoShapes(nBatch)
    /\ C11_TwoShapes(nMerge)
    /\ nAll.done =>
          /\ ~nAll.raised
          /\ nDoc.shape \in {"obj", "list"} =>
                nAll.items = SelectSeq(nDoc.items, IsDict)
          /\ nDoc.shape = "single" =>
                nAll.items = IF DOMAIN nDoc.items[1].f \cap {"nombre", "cargo"} # {}
                             THEN nDoc.items ELSE <<>>
          /\ nDoc.shape = "other" => nAll.items = <<>>

\* a list with an element that is no object: kept by the batch
\* normalisers, dropped by merge_all_profiles
C11_Witness ==
    /\ nBatch.done /\ nMerge.done /\ nAll.done
    /\ nDoc.shape = "list" /\ Len(nDoc.items) = 2
    /\ ~nBatch.raised /\ nBatch.items = nDoc.items /\ nMerge.items = nDoc.items
    /\ Len(nAll.items) = 1

\* C11 (as claimed): each of the three normalisers accepts the two shapes,
\* returning the collection as it is, and rejects every other value.
C11_ExactlyTwoShapes ==
    C11_TwoShapes(nBatch) /\ C11_TwoShapes(nMerge) /\ C11_TwoShapes(nAll)

(***************************************************************************)
(* Properties of SpecCompress                                              *)
(***************************************************************************)
\* the encoded size does not decrease with the quality: every quality
\* below a fitting one fits
C16_Monotone == \A q \in cFits : \A r \in Qualities : r < q => r \in cFits

C16_Max(S) == CHOOSE q \in S : \A r \in S : r <= q

\* C16 (amended): the file finally written is the one of the highest
\* quality that the search tried and found to fit, so it is no larger than
\* max_bytes whenever a tried quality fits; when the encoded size does not
\* decrease with the quality and some quality in [40,95] fits, that is the
\* highest fitting quality of all.
C16_BoundWhenSizeMonotone ==
    cpc = "done" =>
        /\ cTried \cap cFits # {} =>
              cWritten = C16_Max(cTried \cap cFits) /\ cWritten \in cFits
        /\ (C16_Monotone /\ cFits # {}) =>
              cWritten = C16_Max(cFits) /\ cWritten \in cFits

\* sizes that grow with the quality, the bound met up to quality 72, and
\* a higher quality tried before
C16_Witness ==
    /\ cpc = "done" /\ cFits = QualityLow..72
    /\ cWritten = 72
    /\ \E q \in cTried : q > 72

\* C16 (as claimed): whenever some quality in [40,95] fits, the final file
\* is the one of the highest fitting quality and is no larger than
\* max_bytes.
C16_BoundWheneverAchievable ==
    (cpc = "done" /\ cFits # {}) =>
        cWritten \in cFits /\ cWritten = C16_Max(cFits)

\* C17 (as claimed): when no quality in [40,95] fits, the file finally
\* written is the one of quality 40.
C17_FallbackLowest ==
    (cpc = "done" /\ cFits = {}) => cWritten = QualityLow

(***************************************************************************)
(* Properties of SpecMerge: the target file of merge_extra_into_profiles   *)
(***************************************************************************)
\* what makes the merge of extra file b into target file t fail
C20_Fails(t, b) ==
    \/ b.shape = "malformed" \/ t.shape \in {"missing", "malformed"}
    \/ b.shape \notin {"obj", "list"} \/ t.shape \notin {"obj", "list"}
    \/ ~AllDicts(t.items) \/ ~AllDicts(b.items)

\* C20: merge_extra_into_profiles changes the target only on success.
\* Without the extra file it returns 0 and opens no file.  When a file
\* does not read as JSON, is in neither accepted shape or holds an element
\* that is no object, the error leaves the function, the target was never
\* opened for writing and holds what it held.  Otherwise the target holds
\* the concatenation target + extra without its later duplicates, and the
\* number returned is its length.
C20_TargetWrittenOnlyOnSuccess ==
    mDisk.ran =>
        LET t == mDisk.inT
            b == mDisk.inB[1]
        IN  /\ ~Exists(b) =>
                  /\ mDisk.status = "noop" /\ mDisk.ret = 0
                  /\ mDisk.ops = <<>> /\ mDisk.outT = t
            /\ (Exists(b) /\ C20_Fails(t, b)) =>
                  /\ mDisk.status = "exit1"
                  /\ WriteTarget \notin Range(mDisk.ops)
                  /\ mDisk.outT = t
            /\ (Exists(b) /\ ~C20_Fails(t, b)) =>
                  /\ mDisk.status = "ok"
                  /\ mDisk.outT = Doc("obj", NoDup(t.items \o b.items))
                  /\ mDisk.ret = Len(mDisk.outT.items)
                  /\ mDisk.ops = <<ReadExtra, ReadTarget, WriteTarget>>

\* a target with profiles and an extra file whose first element is no
\* object: the merge failed and the target is as it was
C20_Witness ==
    /\ mDisk.ran /\ mDisk.status = "exit1"
    /\ mDisk.inT.shape = "list" /\ Len(mDisk.inT.items) = 2 /\ AllDicts(mDisk.inT.items)
    /\ mDisk.inB[1] = Doc("obj", <<Scalar, PA>>)
    /\ mDisk.outT = mDisk.inT /\ mTarget = mDisk.inT

(***************************************************************************)
(* Properties of Spec: the photo of a profile                              *)
(***************************************************************************)
\* build_one got past the resolution of the photo of a valid profile
PhotoStageDone(e) == e.v.ok /\ e.resolveCalled /\ ~(e.outcome = "raised" /\ e.stage = "photo")

\* the explicit path of the profile: as given when absolute, else under the
\* project root, else under the photos directory, when that file exists
C12_Explicit(e) ==
    LET rv == Get(e.elem.f, "ruta_foto", JNull)
    IN  IF ~Truthy(rv) THEN NoPath
        ELSE IF IsAbs(rv.s) THEN (IF rv.s \in fs THEN rv.s ELSE NoPath)
        ELSE IF Join(PROJECT_ROOT, rv.s) \in fs THEN Join(PROJECT_ROOT, rv.s)
        ELSE IF Join(DEFAULT_PHOTOS_DIR, rv.s) \in fs THEN Join(DEFAULT_PHOTOS_DIR, rv.s)
        ELSE NoPath

\* the file of the photos directory that has the basename of the
\* profile's path
C12_Basename(e) ==
    LET rv == Get(e.elem.f, "ruta_foto", JNull)
    IN  IF rv.t = "str"
        THEN _find_photo_by_basename(fs, DEFAULT_PHOTOS_DIR, BaseName(rv.s))
        ELSE NoPath

\* C12 (amended): build_one chooses the photo in two steps: (1) the
\* explicit path of the profile if that file exists; (2) the name guess,
\* consulted only when a photo is asked for and step 1 found nothing.
\* Without a request for a photo only step 1 is taken.  No basename match
\* is tried: the guess is taken also when the photos directory holds a
\* file with the basename of the explicit path.
C12_ExplicitThenNameGuess ==
    \A i \in 1..Len(events) :
        LET e == events[i]
        IN  PhotoStageDone(e) =>
                /\ e.ruta0 = C12_Explicit(e)
                /\ e.guessCalled <=> (e.incluir /\ e.ruta0 = NoPath)
                /\ e.guessCalled =>
                      e.guess \in _find_photo_by_name_guess(fs, DEFAULT_PHOTOS_DIR,
                                                             e.elem.f["nombre"])
                /\ e.ruta = IF e.ruta0 # NoPath THEN e.ruta0
                            ELSE IF e.incluir THEN e.guess ELSE NoPath
                /\ ~e.preprocessCalled => e.data["ruta_foto"] = PathValue(e.ruta)

\* the explicit path does not exist, the photos directory holds a file of
\* its basename, and the renderer got the file the name guess found
C12_Witness ==
    \E i \in 1..Len(events) :
        LET e == events[i]
        IN  /\ PhotoStageDone(e) /\ e.incluir /\ e.ruta0 = NoPath
            /\ C12_Basename(e) # NoPath
            /\ e.guess # NoPath /\ e.guess # C12_Basename(e)
            /\ e.outcome = "rendered" /\ e.data["ruta_foto"] = JStr(e.guess)

\* C12 (as claimed): the photo is the explicit path if that file exists,
\* else the basename match in the photos directory, else the name guess,
\* a later step being consulted only when the earlier ones found nothing.
C12_PriorityChain ==
    \A i \in 1..Len(events) :
        LET e == events[i]
        IN  (PhotoStageDone(e) /\ e.incluir) =>
                /\ e.ruta0 = C12_Explicit(e)
                /\ e.guessCalled <=> (e.ruta0 = NoPath /\ C12_Basename(e) = NoPath)
                /\ e.ruta = IF e.ruta0 # NoPath THEN e.ruta0
                            ELSE IF C12_Basename(e) # NoPath THEN C12_Basename(e)
                            ELSE e.guess

\* a photo is asked for and neither step found a file
C13_Unresolved(e) == PhotoStageDone(e) /\ e.incluir /\ e.ruta = NoPath

\* C13: when a valid profile asks for a photo and no path resolves,
\* build_one prints the note, does not call preprocess_photo, gives the
\* renderer a copy whose ruta_foto is None, and calls the renderer (unless
\* the output directory cannot be made); nothing is raised before that
\* and the run goes on.  The note is printed in no other case.
C13_UnresolvedPhotoRendersWithout ==
    \A i \in 1..Len(events) :
        LET e == events[i]
        IN  /\ e.info <=> C13_Unresolved(e)
            /\ C13_Unresolved(e) =>
                  /\ e.guessCalled /\ e.guess = NoPath
                  /\ ~e.preprocessCalled /\ ~e.preprocessWarn
                  /\ e.data["ruta_foto"] = JNull
                  /\ e.rendererCalled \/ (e.outcome = "raised" /\ e.stage = "outdir")
                  /\ e.outcome = "raised" => e.stage \in {"outdir", "render"}
                  /\ pc \in {"loop", "done"}

\* with --process-photos, a profile whose photo does not resolve is
\* rendered and so is the next one
C13_Witness ==
    /\ args.process_photos /\ pc = "done"
    /\ \E i \in 1..(Len(events) - 1) :
          /\ C13_Unresolved(events[i]) /\ events[i].info
          /\ events[i].outcome = "rendered"
          /\ events[i + 1].outcome = "rendered"

\* C14: preprocess_photo is called exactly when a photo is asked for, a
\* path resolved and --process-photos is given.  When it raises, a warning
\* is printed, nothing leaves build_one, and the renderer is called with
\* the resolved path; when it returns, the renderer is called with the
\* path of the processed file.
C14_PreprocessFailureFallsBack ==
    \A i \in 1..Len(events) :
        LET e == events[i]
        IN  /\ e.preprocessCalled <=>
                  (PhotoStageDone(e) /\ e.incluir /\ e.ruta # NoPath /\ args.process_photos)
            /\ e.preprocessWarn => e.preprocessCalled
            /\ e.preprocessCalled =>
                  /\ e.data["ruta_foto"] = IF e.preprocessWarn THEN JStr(e.ruta)
                                           ELSE JStr(ProcessedPath(e.ruta))
                  /\ ProcessedPath(e.ruta) # e.ruta
                  /\ e.rendererCalled \/ (e.outcome = "raised" /\ e.stage = "outdir")
                  /\ e.outcome = "raised" => e.stage \in {"outdir", "render"}
                  /\ pc \in {"loop", "done"}

\* one photo that could not be processed and one that could, both
\* profiles rendered
C14_Witness ==
    \E i, j \in 1..Len(events) :
        /\ events[i].preprocessWarn /\ events[i].outcome = "rendered"
        /\ events[i].data["ruta_foto"] = JStr(events[i].ruta)
        /\ events[j].preprocessCalled /\ ~events[j].preprocessWarn
        /\ events[j].outcome = "rendered"

\* C15: build_one leaves the record it is given as it was, whatever the
\* outcome; what the renderer gets differs from it in ruta_foto at most.
C15_ProfileNotMutated ==
    /\ Len(events) <= Len(perfiles)
    /\ \A i \in 1..Len(events) :
          LET e == events[i]
          IN  /\ e.after = e.elem
              /\ perfiles[i] = e.elem
              /\ e.data # <<>> =>
                    /\ DOMAIN e.data = DOMAIN e.elem.f \cup {"ruta_foto"}
                    /\ \A k \in DOMAIN e.elem.f \ {"ruta_foto"} : e.data[k] = e.elem.f[k]

\* a profile rendered with a photo path that is not the one of the record,
\* one skipped and one that raised: each record as it was
C15_Witness ==
    /\ \E i \in 1..Len(events) :
          /\ events[i].outcome = "rendered"
          /\ "ruta_foto" \in DOMAIN events[i].elem.f
          /\ events[i].data["ruta_foto"] # events[i].elem.f["ruta_foto"]
          /\ perfiles[i] = events[i].elem
    /\ \E i \in 1..Len(events) : events[i].outcome # "rendered"

(***************************************************************************)
(* Properties of Spec: how a run ends, and which file it reads             *)
(***************************************************************************)
\* the on-disk merge was asked for and fails
C18_MergeFails ==
    /\ args.merge_extra_to_profiles
    /\ Exists(files0[args.extra_file])
    /\ C20_Fails(files0[args.profiles_file], files0[args.extra_file])

\* profiles.json is missing, is not JSON, or is JSON that is neither an
\* object with a perfiles list nor a list
C18_StoreUnreadable == files0.profiles.shape \notin {"obj", "list"}

C18_CodecMissing == args.process_photos /\ ~pillow

\* C18: a run ends with a non-zero exit code exactly when the requested
\* on-disk merge fails, profiles.json is missing or cannot be read as a
\* collection of profiles, or --process-photos is given without Pillow,
\* and then build_one was never called; every other run prints the summary
\* and ends with 0, whatever happened to its profiles.
C18_ExitCodes ==
    LET fatal == C18_MergeFails \/ C18_StoreUnreadable \/ C18_CodecMissing
    IN  /\ pc = "exit" =>
              /\ fatal /\ out.exitcode \in {1, 2}
              /\ events = <<>> /\ out.summary = -1
        /\ pc = "done" => ~fatal /\ out.exitcode = 0 /\ out.summary >= 0
        /\ pc \notin {"exit", "done"} => out.exitcode = -1
        /\ events # <<>> => ~fatal
        /\ pc = "load" => ~C18_MergeFails
        /\ pc \in {"inmem", "pillow"} => ~C18_MergeFails /\ ~C18_StoreUnreadable

\* a run that ends with 0 although one profile raised and one was skipped
C18_Witness ==
    /\ pc = "done" /\ out.exitcode = 0
    /\ \E i, j \in 1..Len(events) :
          events[i].outcome = "raised" /\ events[j].outcome = "skipped"
    /\ RenderedCount = 0

\* C19: the list the run generates from is read from data/profiles.json,
\* merged in memory with data/perfiles_generados_extra.json, whatever
\* --input and --profiles-file name; an on-disk merge into another file
\* leaves profiles.json as it was and nothing of that file is generated.
C19_AlwaysDefaultStore ==
    /\ pc = "inmem" => perfiles = files.profiles.items
    /\ pc \in {"pillow", "loop", "done"} =>
          perfiles = IF out.inmem = "ok"
                     THEN ExpectedMerge(files.profiles.items, files.extra.items)
                     ELSE files.profiles.items
    /\ files.extra = files0.extra
    /\ args.profiles_file # DEFAULT_PROFILES_FILE => files.profiles = files0.profiles
    /\ args.profiles_file # AltFile => files.alt = files0.alt

\* --input and --profiles-file name another file, the merge rewrote it,
\* and the run rendered profiles.json, which does not hold its profile
C19_Witness ==
    /\ pc = "done" /\ args.merge_extra_to_profiles
    /\ args.input = AltFile /\ args.profiles_file = AltFile
    /\ files.alt # files0.alt /\ PB \in Range(files.alt.items)
    /\ RenderedCount > 0
    /\ PB \notin Range(perfiles)

====
